---- MODULE Spec2Model ----
(***************************************************************************)
(* Complex-field sampling and rendering scripts:                           *)
(*   complex-exp/vis.py, complex-exp/complex_visualization.py  (exp(1/z))  *)
(*   complex-ln/mvp/scope.py, complex-ln/final/script.py       (ln(z))     *)
(*                                                                         *)
(* Floating-point values are modelled as tagged values: NaN, +Inf, -Inf or *)
(* a finite number in fixed point (an integer count of 1/Scale).  The      *)
(* library primitives the scripts call (np.exp, np.log, np.abs, np.angle,  *)
(* np.clip, complex division) are operators on these values, with the     *)
(* IEEE special cases spelled out.                                         *)
(***************************************************************************)
EXTENDS Integers, Sequences, FiniteSets, TLC

\* ------------------------------------------------------------- bounds

\* Largest --resolution argument explored (the lattice is resolution x resolution).
MaxRes == 5

\* Largest number of plot_* calls an importing caller makes in one session.
MaxCalls == 2

\* The ln(z) lattice has n_points rows; the model evaluates every sample of
\* the rows whose index lies within MaxOffset of the first row, of the last
\* row or of the centre row (y = 0).
MaxOffset == 2

\* ------------------------------------------------------- float values

\* One unit of a finite value is 1/Scale.
Scale == 1000

NaN == [k |-> "nan", v |-> 0]
PInf == [k |-> "inf", v |-> 1]
NInf == [k |-> "inf", v |-> -1]
Fin(n) == [k |-> "fin", v |-> n]

IsNaN(a) == a.k = "nan"
IsInf(a) == a.k = "inf"
IsFin(a) == a.k = "fin"

\* IEEE comparison a < b: false when either side is NaN.
Lt(a, b) ==
    IF IsNaN(a) \/ IsNaN(b) THEN FALSE
    ELSE IF IsInf(a) THEN a.v < 0 /\ ~(IsInf(b) /\ b.v < 0)
    ELSE IF IsInf(b) THEN b.v > 0
    ELSE a.v < b.v

Cx(re, im) == [re |-> re, im |-> im]

AbsInt(n) == IF n < 0 THEN -n ELSE n

\* a / b rounded to the nearest unit, b > 0.
RDiv(a, b) ==
    IF a >= 0 THEN (a + (b \div 2)) \div b ELSE -((-a + (b \div 2)) \div b)

RECURSIVE IsqrtIn(_, _, _)
IsqrtIn(n, lo, hi) ==
    IF lo >= hi THEN lo
    ELSE LET mid == (lo + hi + 1) \div 2
         IN IF mid * mid <= n THEN IsqrtIn(n, mid, hi) ELSE IsqrtIn(n, lo, mid - 1)

\* floor(sqrt(n)), n >= 0.
Isqrt(n) == IsqrtIn(n, 0, IF n < 46340 THEN n ELSE 46340)

\* sqrt(x^2 + y^2) of two fixed-point numbers.
HypotInt(x, y) == Isqrt(x * x + y * y)

RECURSIVE ExpSeries(_, _, _, _)
ExpSeries(a, n, term, acc) ==
    IF term = 0 THEN acc
    ELSE ExpSeries(a, n + 1, RDiv(term * a, n * Scale), acc + term)

\* e^a in fixed point.
ExpInt(a) ==
    IF a >= 0 THEN ExpSeries(a, 1, Scale, 0)
    ELSE RDiv(Scale * Scale, ExpSeries(-a, 1, Scale, 0))

RECURSIVE TrigSeries(_, _, _, _)
TrigSeries(b, n, term, acc) ==
    IF term = 0 THEN acc
    ELSE TrigSeries(b, n + 2,
                    -RDiv(RDiv(term * b, Scale) * b, n * (n + 1) * Scale),
                    acc + term)

SinInt(b) == TrigSeries(b, 2, b, 0)
CosInt(b) == TrigSeries(b, 1, Scale, 0)

\* atan and ln are evaluated with one more decimal digit than Scale.
Fine == 10 * Scale

RECURSIVE AtanSeries(_, _, _, _)
AtanSeries(t, n, pow, acc) ==
    IF pow = 0 THEN acc
    ELSE AtanSeries(t, n + 2, -RDiv(RDiv(pow * t, Fine) * t, Fine),
                    acc + RDiv(pow, n))

\* atan(t) for 0 <= t <= 1 (in units of 1/Fine): the series for small t, and
\* atan(t) = 2 atan(t / (1 + sqrt(1 + t^2))) otherwise.
RECURSIVE AtanFine(_)
AtanFine(t) ==
    IF 4 * t <= Fine THEN AtanSeries(t, 1, t, 0)
    ELSE 2 * AtanFine(RDiv(Fine * t, Fine + HypotInt(Fine, t)))

\* atan(num / den) in units of 1/Scale, 0 <= num <= den, den > 0.
AtanRatio(num, den) == RDiv(AtanFine(RDiv(Fine * num, den)), 10)

Pi == RDiv(4 * AtanFine(Fine), 10)

\* Mutant: the negative real axis is put on the lower edge of the branch cut.
Atan2LowerCut(y, x) ==
    IF x = 0 /\ y = 0 THEN 0
    ELSE IF AbsInt(y) <= AbsInt(x)
         THEN LET t == AtanRatio(AbsInt(y), AbsInt(x))
              IN IF x > 0 THEN (IF y >= 0 THEN t ELSE -t)
                 ELSE (IF y > 0 THEN Pi - t ELSE t - Pi)
         ELSE LET t == AtanRatio(AbsInt(x), AbsInt(y))
                  h == Pi \div 2
              IN IF y > 0 THEN (IF x >= 0 THEN h - t ELSE h + t)
                 ELSE (IF x >= 0 THEN t - h ELSE -h - t)

\* atan2(y, x) of two finite numbers, in radians, in (-Pi, Pi]; the zeros of
\* the lattices are +0.0, so atan2(0, x < 0) is +Pi.
Atan2Int(y, x) ==
    IF x = 0 /\ y = 0 THEN 0
    ELSE IF AbsInt(y) <= AbsInt(x)
         THEN LET t == AtanRatio(AbsInt(y), AbsInt(x))
              IN IF x > 0 THEN (IF y >= 0 THEN t ELSE -t)
                 ELSE (IF y >= 0 THEN Pi - t ELSE t - Pi)
         ELSE LET t == AtanRatio(AbsInt(x), AbsInt(y))
                  h == Pi \div 2
              IN IF y > 0 THEN (IF x >= 0 THEN h - t ELSE h + t)
                 ELSE (IF x >= 0 THEN t - h ELSE -h - t)

RECURSIVE LnSeries(_, _, _, _)
LnSeries(u, n, pow, acc) ==
    IF pow = 0 THEN acc
    ELSE LnSeries(u, n + 2, RDiv(RDiv(pow * u, Fine) * u, Fine),
                  acc + RDiv(pow, n))

\* ln(v) = 2 atanh((v - 1) / (v + 1)) for v near 1 (units of 1/Fine).
LnCore(v) ==
    LET u == RDiv(Fine * (v - Fine), v + Fine) IN 2 * LnSeries(u, 1, u, 0)

RECURSIVE LnFine(_)
LnFine(v) ==
    IF v > 2 * Fine THEN LnCore(2 * Fine) + LnFine(RDiv(v, 2))
    ELSE IF 2 * v < Fine THEN LnFine(2 * v) - LnCore(2 * Fine)
    ELSE LnCore(v)

\* ln(v) of a finite v > 0, in units of 1/Scale.
LnInt(v) == RDiv(LnFine(10 * v), 10)

\* ------------------------------------------------------ numpy on values

\* np.linspace(start, stop, num)[k] for num >= 1 (num = 1 yields [start]).
Linspace(start, stop, num, k) ==
    IF num = 1 THEN start ELSE start + RDiv((stop - start) * k, num - 1)

\* X, Y = np.meshgrid(x_vals, y_vals); Z = X + 1j * Y, indexed <<row, column>>.
\* rows and cols are the indices the model keeps.
Lattice(start, stop, num, rows, cols) ==
    [p \in rows \X cols |->
        Cx(Fin(Linspace(start, stop, num, p[2])), Fin(Linspace(start, stop, num, p[1])))]

\* np.abs of a complex value (hypot: an infinite part wins over a NaN part).
CAbs(z) ==
    IF IsInf(z.re) \/ IsInf(z.im) THEN PInf
    ELSE IF IsNaN(z.re) \/ IsNaN(z.im) THEN NaN
    ELSE Fin(HypotInt(z.re.v, z.im.v))

\* Mutant: the masked positions are zeroed instead of marked undefined.
MaskedAsZero == Cx(Fin(0), Fin(0))

\* Z[mask] = np.nan stores the complex value nan+0j.
MaskedValue == Cx(NaN, Fin(0))

\* Mutant: division by zero yields nan+nanj instead of inf+nanj.
CRecipNaNAtZero(z) ==
    IF IsNaN(z.re) \/ IsNaN(z.im) THEN Cx(NaN, NaN)
    ELSE IF z.re.v = 0 /\ z.im.v = 0 THEN Cx(NaN, NaN)
    ELSE LET d == z.re.v * z.re.v + z.im.v * z.im.v
         IN Cx(Fin(RDiv(Scale * Scale * z.re.v, d)),
               Fin(RDiv(-(Scale * Scale * z.im.v), d)))

\* 1 / z (numpy complex division): nan+nanj for a NaN operand, inf+nanj for
\* z = 0, conj(z)/|z|^2 otherwise.
CRecip(z) ==
    IF IsNaN(z.re) \/ IsNaN(z.im) THEN Cx(NaN, NaN)
    ELSE IF z.re.v = 0 /\ z.im.v = 0 THEN Cx(PInf, NaN)
    ELSE LET d == z.re.v * z.re.v + z.im.v * z.im.v
         IN Cx(Fin(RDiv(Scale * Scale * z.re.v, d)),
               Fin(RDiv(-(Scale * Scale * z.im.v), d)))

\* np.exp of a complex value: e^a (cos b + i sin b); exp(inf+nanj) = inf+nanj;
\* NaN otherwise.
CExp(w) ==
    IF IsFin(w.re) /\ IsFin(w.im)
    THEN LET e == ExpInt(w.re.v)
         IN Cx(Fin(RDiv(e * CosInt(w.im.v), Scale)),
               Fin(RDiv(e * SinInt(w.im.v), Scale)))
    ELSE IF w.re = PInf /\ IsNaN(w.im) THEN Cx(PInf, NaN)
    ELSE Cx(NaN, NaN)

\* np.log of a complex value (principal branch): ln|z| + i atan2(y, x).
CLog(z) ==
    IF IsFin(z.re) /\ IsFin(z.im)
    THEN IF z.re.v = 0 /\ z.im.v = 0 THEN Cx(NInf, Fin(0))
         ELSE Cx(Fin(LnInt(HypotInt(z.re.v, z.im.v))),
                 Fin(Atan2Int(z.im.v, z.re.v)))
    ELSE Cx(NaN, NaN)

\* np.angle(w, deg=True) = arctan2(imag, real) * 180 / pi.
CAngleDeg(w) ==
    IF IsFin(w.re) /\ IsFin(w.im)
    THEN Fin(RDiv(Atan2Int(w.im.v, w.re.v) * 180 * Scale, Pi))
    ELSE NaN

\* Mutant: min(max(v, lo), hi) by comparisons, which sends NaN to a bound.
ClipByComparison(v, lo, hi) ==
    IF Lt(lo, v) THEN (IF Lt(v, hi) THEN v ELSE hi) ELSE lo

\* np.clip(v, lo, hi) on one element: NaN passes through.
Clip(v, lo, hi) ==
    IF IsNaN(v) THEN NaN
    ELSE IF Lt(v, lo) THEN lo
    ELSE IF Lt(hi, v) THEN hi
    ELSE v

\* ------------------------------------------------------------- state

VARIABLES
    prog,       \* the entry point being run
    backend,    \* matplotlib backend in effect: "agg" or "interactive"
    pc,         \* the next statement of the running function
    queue,      \* the plot_* calls main() has still to make
    call,       \* arguments of the running plot_* call
    ncalls,     \* plot_* calls an importing caller has made
    steps,      \* what the running (or last) invocation has done so far
    Z,          \* the complex lattice
    W,          \* exp(1/Z), or ln(Z)
    comp,       \* the extracted component before clipping
    arg_val,    \* np.angle(W, deg=True) in plot_absolute_exp
    data,       \* the array handed to imshow
    ln_real, ln_imag, ln_abs,   \* the three components of ln(Z)
    todo,       \* the figures an ln script has still to produce
    figs,       \* pyplot's open figures, the current one last
    nfig,       \* figures created so far
    emits,      \* emits[f]: how often figure f was saved or displayed
    im,         \* im = ax.imshow(...): the array drawn on the new figure
    files,      \* output files written
    err         \* the exception that ended the last invocation, or "none":
                \* "SystemExit" (argparse), "ValueError: samples" (np.linspace),
                \* "ValueError: colormap" (imshow, contourf)

vars == <<prog, backend, pc, queue, call, ncalls, steps, Z, W, comp, arg_val,
          data, ln_real, ln_imag, ln_abs, todo, figs, nfig, emits, im,
          files, err>>

locals == <<Z, W, comp, arg_val, data>>
lnlocals == <<ln_real, ln_imag, ln_abs, todo>>
session == <<prog, backend, ncalls>>

NoField == << >>
NoCall == [fn |-> "", cmap |-> "", output_file |-> "", resolution |-> 0,
           singularity_size |-> Fin(0)]

\* plt.colormaps(): the names the palette catalog resolves.
Catalog == {"RdYlBu_r", "hsv", "inferno", "jet", "rainbow"}

\* Argument values explored.
CmapArgs == {"RdYlBu_r", "nope"}
OutputArgs == {"", "out"}
Resolutions == (-1) .. MaxRes
SingularitySizes == {Fin(-10), Fin(0), Fin(10), Fin(600), Fin(1500)}

ExpMains == {"vis.py:main", "complex_visualization.py:main"}
ExpImports == {"vis.py:import", "complex_visualization.py:import"}
LnMains == {"scope.py:main", "script.py:main"}

\* The plot functions each module defines.
PlotFns(p) ==
    IF p \in {"vis.py:main", "vis.py:import"}
    THEN {"plot_complex_exp", "plot_imaginary_exp", "plot_absolute_exp"}
    ELSE {"plot_complex_exp"}

\* vis.py selects Agg on import; the other scripts run on the default backend.
Backends(p) ==
    IF p \in {"vis.py:main", "vis.py:import"} THEN {"agg"}
    ELSE {"agg", "interactive"}

Init ==
    /\ prog \in ExpMains \cup ExpImports \cup LnMains
    /\ backend \in Backends(prog)
    /\ pc = IF prog \in ExpImports THEN "idle" ELSE "start"
    /\ queue = << >>
    /\ call = NoCall
    /\ ncalls = 0
    /\ steps = {}
    /\ Z = NoField /\ W = NoField /\ comp = NoField /\ arg_val = NoField
    /\ data = NoField
    /\ ln_real = NoField /\ ln_imag = NoField /\ ln_abs = NoField
    /\ todo = << >>
    /\ figs = << >> /\ nfig = 0 /\ emits = << >> /\ im = NoField
    /\ files = {}
    /\ err = "none"

\* ----------------------------------------------------- exp(1/z) scripts

\* main() of vis.py / complex_visualization.py: argparse restricts --cmap to
\* choices=get_available_colormaps() and exits on any other name; otherwise the
\* plot functions are called in order with the parsed arguments.
MainCalls(p, cmap, prefix, res, s) ==
    IF p = "vis.py:main"
    THEN << [fn |-> "plot_complex_exp", cmap |-> cmap,
             output_file |-> IF prefix = "" THEN "" ELSE "out_real.svg",
             resolution |-> res, singularity_size |-> s],
            [fn |-> "plot_imaginary_exp", cmap |-> cmap,
             output_file |-> IF prefix = "" THEN "" ELSE "out_imag.svg",
             resolution |-> res, singularity_size |-> s],
            [fn |-> "plot_absolute_exp", cmap |-> cmap,
             output_file |-> IF prefix = "" THEN "" ELSE "out_abs.svg",
             resolution |-> res, singularity_size |-> s] >>
    ELSE << [fn |-> "plot_complex_exp", cmap |-> cmap, output_file |-> prefix,
             resolution |-> res, singularity_size |-> s] >>

MainParse ==
    /\ prog \in ExpMains
    /\ pc = "start"
    /\ \E cmap \in CmapArgs, prefix \in OutputArgs, res \in Resolutions,
          s \in SingularitySizes :
          IF cmap \in Catalog
          THEN /\ queue' = MainCalls(prog, cmap, prefix, res, s)
               /\ pc' = "idle"
               /\ err' = "none"
          ELSE /\ queue' = << >>
               /\ pc' = "exit"
               /\ err' = "SystemExit"
    /\ UNCHANGED <<session, call, steps, locals, lnlocals, figs, nfig, emits,
                   im, files>>

\* main() makes its next plot_* call.
MainCall ==
    /\ prog \in ExpMains
    /\ pc = "idle"
    /\ queue # << >>
    /\ call' = Head(queue)
    /\ queue' = Tail(queue)
    /\ steps' = {}
    /\ pc' = "linspace"
    /\ UNCHANGED <<session, locals, lnlocals, figs, nfig, emits, im, files, err>>

\* An importing caller calls one of the module's plot functions directly.
ImportCall ==
    /\ prog \in ExpImports
    /\ pc = "idle"
    /\ ncalls < MaxCalls
    /\ \E fn \in PlotFns(prog), cmap \in CmapArgs, out \in OutputArgs,
          res \in Resolutions, s \in SingularitySizes :
          call' = [fn |-> fn, cmap |-> cmap, output_file |-> out,
                   resolution |-> res, singularity_size |-> s]
    /\ ncalls' = ncalls + 1
    /\ steps' = {}
    /\ err' = "none"
    /\ pc' = "linspace"
    /\ UNCHANGED <<prog, backend, queue, locals, lnlocals, figs, nfig, emits,
                   im, files>>

\* Where control goes when a plot_* call ends: back to the caller, or, after an
\* uncaught exception in main(), out of the process.
AfterCall(e) ==
    IF e # "none" /\ prog \in ExpMains THEN "exit" ELSE "idle"

\* The locals of a plot_* call are dropped when it ends (im as well, which
\* the actions that end a call reset themselves).
DropLocals ==
    /\ Z' = NoField /\ W' = NoField /\ comp' = NoField /\ arg_val' = NoField
    /\ data' = NoField

\* x_vals, y_vals = np.linspace(-1, 1, resolution); X, Y = np.meshgrid(...);
\* Z = X + 1j * Y.  np.linspace raises ValueError for a negative count.
PlotGrid ==
    /\ pc = "linspace"
    /\ IF call.resolution < 0
       THEN /\ err' = "ValueError: samples"
            /\ pc' = AfterCall("ValueError: samples")
            /\ queue' = IF prog \in ExpMains THEN << >> ELSE queue
            /\ call' = NoCall
            /\ UNCHANGED <<steps, Z>>
       ELSE /\ Z' = Lattice(-Scale, Scale, call.resolution,
                            0 .. (call.resolution - 1),
                            0 .. (call.resolution - 1))
            /\ steps' = steps \cup {"grid"}
            /\ pc' = "mask"
            /\ UNCHANGED <<err, queue, call>>
    /\ UNCHANGED <<session, W, comp, arg_val, data, lnlocals, figs, nfig, emits,
                   im, files>>

\* Z[np.abs(Z) < singularity_size] = np.nan
MaskSingularity(z, s) == IF Lt(CAbs(z), s) THEN MaskedValue ELSE z

PlotMask ==
    /\ pc = "mask"
    /\ Z' = [p \in DOMAIN Z |-> MaskSingularity(Z[p], call.singularity_size)]
    /\ steps' = steps \cup {"mask"}
    /\ pc' = "exp"
    /\ UNCHANGED <<session, queue, call, W, comp, arg_val, data, lnlocals, figs,
                   nfig, emits, im, files, err>>

\* exp_inv_complex(Z): np.exp(1 / Z) under np.errstate(divide, invalid ignored).
exp_inv_complex(z) == CExp(CRecip(z))

PlotEval ==
    /\ pc = "exp"
    /\ W' = [p \in DOMAIN Z |-> exp_inv_complex(Z[p])]
    /\ steps' = steps \cup {"eval"}
    /\ pc' = "component"
    /\ UNCHANGED <<session, queue, call, Z, comp, arg_val, data, lnlocals, figs,
                   nfig, emits, im, files, err>>

\* np.real(W), np.imag(W) or np.abs(W), by plot function.
Component(fn, w) ==
    IF fn = "plot_complex_exp" THEN w.re
    ELSE IF fn = "plot_imaginary_exp" THEN w.im
    ELSE CAbs(w)

\* plot_absolute_exp also computes arg_val = np.angle(W, deg=True).
PlotComponent ==
    /\ pc = "component"
    /\ comp' = [p \in DOMAIN W |-> Component(call.fn, W[p])]
    /\ arg_val' = IF call.fn = "plot_absolute_exp"
                  THEN [p \in DOMAIN W |-> CAngleDeg(W[p])]
                  ELSE NoField
    /\ pc' = "clip"
    /\ UNCHANGED <<session, queue, call, steps, Z, W, data, lnlocals, figs, nfig,
                   emits, im, files, err>>

\* The clip bounds each plot function passes to np.clip.
ClipLo(fn) == IF fn = "plot_absolute_exp" THEN Fin(0) ELSE Fin(-2 * Scale)
ClipHi(fn) == Fin(2 * Scale)

\* np.clip(component, lo, hi)
ClipComponent(fn, v) == Clip(v, ClipLo(fn), ClipHi(fn))

PlotClip ==
    /\ pc = "clip"
    /\ data' = [p \in DOMAIN comp |-> ClipComponent(call.fn, comp[p])]
    /\ pc' = "figure"
    /\ UNCHANGED <<session, queue, call, steps, Z, W, comp, arg_val, lnlocals,
                   figs, nfig, emits, im, files, err>>

\* fig = plt.figure(figsize=(10, 10)); ax = fig.add_subplot(111): a new
\* figure, which becomes pyplot's current one.
PlotFigure ==
    /\ pc = "figure"
    /\ nfig' = nfig + 1
    /\ figs' = Append(figs, nfig + 1)
    /\ emits' = Append(emits, 0)
    /\ im' = NoField
    /\ steps' = steps \cup {"figure"}
    /\ pc' = "imshow"
    /\ UNCHANGED <<session, queue, call, locals, lnlocals, files, err>>

\* The array each plot function passes to ax.imshow.
ImshowData(fn, d, a) == d

\* ax.imshow(<data>, cmap=cmap, ...), then the decorations are removed and
\* plt.tight_layout() runs.  imshow is the first use of cmap: a name the
\* catalog does not resolve raises ValueError here.
PlotImshow ==
    /\ pc = "imshow"
    /\ IF call.cmap \in Catalog
       THEN /\ im' = ImshowData(call.fn, data, arg_val)
            /\ steps' = steps \cup {"imshow"}
            /\ pc' = "emit"
            /\ UNCHANGED <<err, queue, call, locals>>
       ELSE /\ err' = "ValueError: colormap"
            /\ pc' = AfterCall("ValueError: colormap")
            /\ queue' = IF prog \in ExpMains THEN << >> ELSE queue
            /\ call' = NoCall
            /\ DropLocals
            /\ UNCHANGED <<im, steps>>
    /\ UNCHANGED <<session, lnlocals, figs, nfig, emits, files>>

\* if output_file: os.makedirs(...); plt.savefig(output_file, ...); plt.close()
PlotSave ==
    /\ pc = "emit"
    /\ call.output_file # ""
    /\ files' = files \cup {call.output_file}
    /\ emits' = [emits EXCEPT ![figs[Len(figs)]] = @ + 1]
    /\ figs' = SubSeq(figs, 1, Len(figs) - 1)
    /\ im' = NoField
    /\ steps' = steps \cup {"emit"}
    /\ pc' = AfterCall("none")
    /\ call' = NoCall
    /\ DropLocals
    /\ UNCHANGED <<session, queue, lnlocals, nfig, err>>

\* else: plt.show().  On Agg show() displays nothing and returns, the figure
\* stays open; on an interactive backend it displays every open figure and
\* returns once the user has closed their windows.
PlotShow ==
    /\ pc = "emit"
    /\ call.output_file = ""
    /\ IF backend = "interactive"
       THEN /\ emits' = [f \in DOMAIN emits |->
                            IF \E i \in DOMAIN figs : figs[i] = f
                            THEN emits[f] + 1 ELSE emits[f]]
            /\ figs' = << >>
            /\ steps' = steps \cup {"emit"}
       ELSE UNCHANGED <<emits, figs, steps>>
    /\ im' = NoField
    /\ pc' = AfterCall("none")
    /\ call' = NoCall
    /\ DropLocals
    /\ UNCHANGED <<session, queue, lnlocals, nfig, files, err>>

\* -------------------------------------------------------- ln(z) scripts

\* n_points = 401: samples per axis of the [-4, 4] x [-4, 4] lattice.
n_points == 401

\* The lattice rows the model evaluates: those within MaxOffset of either end
\* of the y axis or of its centre (y = 0); every column of a row is kept.
LnRows ==
    {i \in 0 .. (n_points - 1) :
        \/ i <= MaxOffset
        \/ i >= n_points - 1 - MaxOffset
        \/ AbsInt(i - ((n_points - 1) \div 2)) <= MaxOffset}

\* The figures each script produces, in order: component, colormap, file.
LnFigures(p, cmap) ==
    IF p = "scope.py:main"
    THEN << [part |-> "real", cmap |-> cmap, file |-> "real_part.svg"],
            [part |-> "imag", cmap |-> cmap, file |-> "imag_part.svg"],
            [part |-> "abs", cmap |-> cmap, file |-> "abs_part.svg"] >>
    ELSE << [part |-> "real", cmap |-> "inferno", file |-> "real_inferno.svg"],
            [part |-> "abs", cmap |-> "hsv", file |-> "abs_hsv.svg"],
            [part |-> "imag", cmap |-> "jet", file |-> "imag_jet.svg"] >>

\* scope.py parses --cmap (any string is accepted: no choices are given);
\* script.py takes no arguments.
LnStart ==
    /\ prog \in LnMains
    /\ pc = "start"
    /\ \E cmap \in (IF prog = "scope.py:main" THEN {"rainbow", "nope"} ELSE {""}) :
          todo' = LnFigures(prog, cmap)
    /\ pc' = "ln_linspace"
    /\ UNCHANGED <<session, queue, call, steps, locals, ln_real, ln_imag, ln_abs,
                   figs, nfig, emits, im, files, err>>

\* x_vals, y_vals = np.linspace(-4, 4, n_points); meshgrid; Z = X + 1j * Y
LnGrid ==
    /\ pc = "ln_linspace"
    /\ Z' = Lattice(-4 * Scale, 4 * Scale, n_points, LnRows, 0 .. (n_points - 1))
    /\ steps' = steps \cup {"grid"}
    /\ pc' = "ln_mask"
    /\ UNCHANGED <<session, queue, call, W, comp, arg_val, data, lnlocals, figs,
                   nfig, emits, im, files, err>>

\* zero_mask = (X == 0) & (Y == 0); Z[zero_mask] = np.nan
MaskZero(z) == IF z.re = Fin(0) /\ z.im = Fin(0) THEN MaskedValue ELSE z

LnMask ==
    /\ pc = "ln_mask"
    /\ Z' = [p \in DOMAIN Z |-> MaskZero(Z[p])]
    /\ steps' = steps \cup {"mask"}
    /\ pc' = "ln_log"
    /\ UNCHANGED <<session, queue, call, W, comp, arg_val, data, lnlocals, figs,
                   nfig, emits, im, files, err>>

\* Z_ln = np.log(Z) under np.errstate(divide, invalid ignored)
LnEval ==
    /\ pc = "ln_log"
    /\ W' = [p \in DOMAIN Z |-> CLog(Z[p])]
    /\ steps' = steps \cup {"eval"}
    /\ pc' = "ln_component"
    /\ UNCHANGED <<session, queue, call, Z, comp, arg_val, data, lnlocals, figs,
                   nfig, emits, im, files, err>>

\* ln_real = np.real(Z_ln); ln_imag = np.imag(Z_ln); ln_abs = np.abs(Z_ln)
LnExtract ==
    /\ pc = "ln_component"
    /\ ln_real' = [p \in DOMAIN W |-> W[p].re]
    /\ ln_imag' = [p \in DOMAIN W |-> W[p].im]
    /\ ln_abs' = [p \in DOMAIN W |-> CAbs(W[p])]
    /\ pc' = "ln_subplots"
    /\ UNCHANGED <<session, queue, call, steps, locals, todo, figs, nfig, emits,
                   im, files, err>>

\* fig, ax = plt.subplots(...): a new figure.
LnSubplots ==
    /\ pc = "ln_subplots"
    /\ todo # << >>
    /\ nfig' = nfig + 1
    /\ figs' = Append(figs, nfig + 1)
    /\ emits' = Append(emits, 0)
    /\ im' = NoField
    /\ steps' = steps \cup {"figure"}
    /\ pc' = "ln_contourf"
    /\ UNCHANGED <<session, queue, call, locals, lnlocals, files, err>>

\* The component a figure draws.
LnPart(part) ==
    IF part = "real" THEN ln_real ELSE IF part = "imag" THEN ln_imag ELSE ln_abs

\* ax.contourf(X, Y, <component>, levels=n_levels, cmap=...): the first use of
\* the colormap name; an unknown name raises ValueError and ends the script.
LnContourf ==
    /\ pc = "ln_contourf"
    /\ IF Head(todo).cmap \in Catalog
       THEN /\ im' = LnPart(Head(todo).part)
            /\ steps' = steps \cup {"contourf"}
            /\ pc' = "ln_savefig"
            /\ UNCHANGED err
       ELSE /\ err' = "ValueError: colormap"
            /\ pc' = "exit"
            /\ UNCHANGED <<im, steps>>
    /\ UNCHANGED <<session, queue, call, locals, lnlocals, figs, nfig, emits,
                   files>>

\* fig.savefig(<file>, format='svg', ...); plt.close(fig)
LnSave ==
    /\ pc = "ln_savefig"
    /\ files' = files \cup {Head(todo).file}
    /\ emits' = [emits EXCEPT ![figs[Len(figs)]] = @ + 1]
    /\ figs' = SubSeq(figs, 1, Len(figs) - 1)
    /\ im' = NoField
    /\ steps' = steps \cup {"emit"}
    /\ todo' = Tail(todo)
    /\ pc' = IF Tail(todo) = << >> THEN "exit" ELSE "ln_subplots"
    /\ UNCHANGED <<session, queue, call, locals, ln_real, ln_imag, ln_abs, nfig,
                   err>>

\* ------------------------------------------------------- specification

Next ==
    \/ MainParse
    \/ MainCall
    \/ ImportCall
    \/ PlotGrid
    \/ PlotMask
    \/ PlotEval
    \/ PlotComponent
    \/ PlotClip
    \/ PlotFigure
    \/ PlotImshow
    \/ PlotSave
    \/ PlotShow
    \/ LnStart
    \/ LnGrid
    \/ LnMask
    \/ LnEval
    \/ LnExtract
    \/ LnSubplots
    \/ LnContourf
    \/ LnSave

Spec == Init /\ [][Next]_vars

\* --------------------------------------------------------------- claims

InExpCall == prog \in ExpMains \cup ExpImports /\ call.fn # ""

\* The coordinate of column (or row) k of the exp(1/z) lattice of the call.
Coord(k) == Linspace(-Scale, Scale, call.resolution, k)

\* |z| < singularity_size at lattice position p, in integer arithmetic.
InsideRadius(p) ==
    /\ IsFin(call.singularity_size)
    /\ call.singularity_size.v > 0
    /\ Coord(p[2]) * Coord(p[2]) + Coord(p[1]) * Coord(p[1])
          < call.singularity_size.v * call.singularity_size.v

\* z = 0 exactly at lattice position p, and the mask radius does not cover it.
UnmaskedZero(p) ==
    Coord(p[2]) = 0 /\ Coord(p[1]) = 0 /\ ~InsideRadius(p)

\* C1: in every exp(1/z) plot function, each lattice point with
\* |z| < singularity_size is NaN in Z after the mask statement, NaN in both
\* parts of W after evaluation, and NaN in the array handed to imshow after
\* component extraction and clipping.
C1_MaskedStaysUndefined ==
    InExpCall =>
      /\ pc \in {"exp", "component", "clip", "figure", "imshow", "emit"} =>
            \A p \in DOMAIN Z : InsideRadius(p) => IsNaN(Z[p].re)
      /\ pc \in {"component", "clip", "figure", "imshow", "emit"} =>
            \A p \in DOMAIN W : InsideRadius(p) => IsNaN(W[p].re) /\ IsNaN(W[p].im)
      /\ pc \in {"figure", "imshow", "emit"} =>
            \A p \in DOMAIN data : InsideRadius(p) => IsNaN(data[p])
      /\ (pc = "emit" /\ im # NoField) =>
            \A p \in DOMAIN im : InsideRadius(p) => IsNaN(im[p])

\* A drawn image with a masked position (NaN) and an unmasked finite one.
C1_Witness ==
    /\ InExpCall
    /\ pc = "emit"
    /\ \E p \in DOMAIN im : InsideRadius(p) /\ IsNaN(im[p])
    /\ \E q \in DOMAIN im : ~InsideRadius(q) /\ IsFin(im[q])

C3_SmallResolutionRejected ==
    (InExpCall /\ call.resolution < 2) =>
        /\ Z = NoField
        /\ steps \cap {"figure", "imshow", "emit"} = {}

\* C4 as stated: when an invocation is rejected for a colormap name the
\* catalog does not resolve, it has built no grid, evaluated nothing and
\* created no figure.
C4_UnknownCmapBeforeComputation ==
    err \in {"SystemExit", "ValueError: colormap"} =>
        steps \cap {"grid", "eval", "figure"} = {}

\* C5 as stated: when a plot function has returned normally, every figure
\* created so far has been emitted exactly once and none remains open.
C5_FigureEmittedAndClosed ==
    (prog \in ExpMains \cup ExpImports /\ pc = "idle" /\ err = "none") =>
        /\ figs = << >>
        /\ \A f \in 1 .. nfig : emits[f] = 1

\* np.clip(v, lo, hi) as the claim words it, on one value (lo, hi finite).
Clamped(v, lo, hi) ==
    IF IsNaN(v) THEN NaN
    ELSE IF v = PInf THEN Fin(hi)
    ELSE IF v = NInf THEN Fin(lo)
    ELSE IF v.v < lo THEN Fin(lo)
    ELSE IF v.v > hi THEN Fin(hi)
    ELSE v

\* C8: the array handed to imshow is the component clamped element by
\* element: below lo becomes lo, above hi (infinity included) becomes hi,
\* values inside are unchanged, NaN stays NaN; every defined sample lies in
\* [-2, 2]; and the modulus clip to [0, 2] equals a clip to [-2, 2].
C8_ClampPerElement ==
    (InExpCall /\ pc \in {"figure", "imshow", "emit"}) =>
        /\ DOMAIN data = DOMAIN comp
        /\ \A p \in DOMAIN comp :
             /\ data[p] = Clamped(comp[p], -2 * Scale, 2 * Scale)
             /\ call.fn = "plot_absolute_exp" =>
                   data[p] = Clamped(comp[p], 0, 2 * Scale)
             /\ IsNaN(data[p]) <=> IsNaN(comp[p])
             /\ ~IsNaN(data[p]) =>
                   IsFin(data[p]) /\ data[p].v >= -2 * Scale /\ data[p].v <= 2 * Scale

\* An imaginary-part array with a value clamped up to -2, one clamped down to
\* 2, one left unchanged, and a NaN passed through.
C8_Witness ==
    /\ InExpCall
    /\ pc = "emit"
    /\ \E p \in DOMAIN comp :
          IsFin(comp[p]) /\ comp[p].v < -2 * Scale /\ data[p] = Fin(-2 * Scale)
    /\ \E p \in DOMAIN comp :
          IsFin(comp[p]) /\ comp[p].v > 2 * Scale /\ data[p] = Fin(2 * Scale)
    /\ \E p \in DOMAIN comp :
          IsFin(comp[p]) /\ AbsInt(comp[p].v) < 2 * Scale /\ comp[p].v # 0
             /\ data[p] = comp[p]
    /\ \E p \in DOMAIN comp : IsNaN(comp[p]) /\ IsNaN(data[p])

\* C9 as stated: in plot_absolute_exp the argument field determines the
\* colours: positions of equal argument are drawn from equal values.
C9_ColourFromArgument ==
    (InExpCall /\ pc = "emit" /\ call.fn = "plot_absolute_exp"
       /\ im # NoField) =>
        \A p, q \in DOMAIN im :
            arg_val[p] = arg_val[q] => im[p] = im[q]

\* The coordinate of index k of the ln(z) lattice.
LnCoord(k) == Linspace(-4 * Scale, 4 * Scale, n_points, k)

\* C10: the imaginary part of ln(z) is NaN exactly at the lattice point
\* z = 0; everywhere else it is finite, greater than -pi and at most pi, and
\* it is +pi on the negative real axis (y = 0, x < 0).
C10_PrincipalBranch ==
    (prog \in LnMains /\ pc \in {"ln_subplots", "ln_contourf", "ln_savefig"}) =>
        \A p \in DOMAIN ln_imag :
            IF LnCoord(p[2]) = 0 /\ LnCoord(p[1]) = 0
            THEN IsNaN(ln_imag[p]) /\ IsNaN(ln_real[p]) /\ IsNaN(ln_abs[p])
            ELSE /\ IsFin(ln_imag[p])
                 /\ ln_imag[p].v > -Pi
                 /\ ln_imag[p].v <= Pi
                 /\ (LnCoord(p[1]) = 0 /\ LnCoord(p[2]) < 0) => ln_imag[p].v = Pi

\* The imaginary part at hand with +pi on the negative real axis, a value
\* just above -pi right below it, and NaN at the origin.
C10_Witness ==
    /\ prog \in LnMains
    /\ pc = "ln_contourf"
    /\ \E p \in DOMAIN ln_imag :
          LnCoord(p[1]) = 0 /\ LnCoord(p[2]) < 0 /\ ln_imag[p] = Fin(Pi)
    /\ \E p \in DOMAIN ln_imag :
          LnCoord(p[1]) < 0 /\ LnCoord(p[2]) < 0 /\ IsFin(ln_imag[p])
             /\ ln_imag[p].v < 10 - Pi
    /\ \E p \in DOMAIN ln_imag :
          LnCoord(p[1]) = 0 /\ LnCoord(p[2]) = 0 /\ IsNaN(ln_imag[p])

====
